---- MODULE Spec2Model ----
(***************************************************************************)
(* Envelope-encryption document store of DocumentAccessPOC.                *)
(*                                                                         *)
(* The persistent state is the relational store (User, Document and        *)
(* SharedKeyRegistry tables, config.getEngine) and the byte store          *)
(* (config.DOCUMENT_STORE).  Every SQLModel helper of models/base.py opens *)
(* its own Session and commits, so every helper call is one transaction:   *)
(* the handlers of models/document.py are modelled as request processes    *)
(* whose steps are exactly those transactions and byte-store calls.        *)
(*                                                                         *)
(* Cryptography is modelled symbolically: a ciphertext names the key that  *)
(* opens it, and opening it with any other key fails.  Random keys are     *)
(* fresh numbers.  uuid3 and sha256 are modelled as injective on their     *)
(* input text (no collisions), so an id is equal to another id exactly     *)
(* when the hashed text is equal.                                          *)
(***************************************************************************)
EXTENDS Naturals, Sequences, FiniteSets, TLC

(***************************************************************************)
(* Bounds of the model.                                                    *)
(***************************************************************************)
\* number of data-encryption keys AES.get_random_key may hand out
MaxDeks == 2
\* number of injected store failures in the specifications with failures
MaxFaults == 1

(***************************************************************************)
(* Input universe.                                                         *)
(***************************************************************************)
UserIds == {"a-b", "a", "u"}

NoDoc == [id |-> "", filepath |-> "", owner_id |-> "", hash |-> ""]
NoResult == [status |-> "", shared_with |-> {}, not_shared_with |-> {}, content |-> ""]

(***************************************************************************)
(* helpers/utils.py                                                        *)
(***************************************************************************)
hash_file(content) == "sha256(" \o content \o ")"

hash_text(text) == "uuid3(" \o text \o ")"

(***************************************************************************)
(* Byte strings and text.  A byte string is known by its length and by a   *)
(* name of its content; a text by its number of characters, by the kind of *)
(* its characters ("hex": hexadecimal digits only, "ascii": ASCII with a   *)
(* character that is no hexadecimal digit, "wide": with characters of more *)
(* than one UTF-8 byte, "surrogate": with a lone surrogate, which has no   *)
(* UTF-8 encoding), by its length in UTF-8 and by a name of its content.   *)
(***************************************************************************)
Bytes(n, val) ==
    [type |-> "bytes", len |-> n, enc |-> "raw", val |-> val, utf8 |-> n]

Str(n, enc, val, utf8) ==
    [type |-> "str", len |-> n, enc |-> enc, val |-> val, utf8 |-> utf8]

NoBytes == Bytes(0, "")
NoDek == NoBytes

\* uuid.UUID.hex: 32 hexadecimal digits
UUID_hex(uuid) == Str(32, "hex", uuid, 32)

\* bytes.hex
bytes_hex(b) == Str(2 * b.len, "hex", b.val, 2 * b.len)

\* bytes.fromhex: raises on a character that is no hexadecimal digit and on
\* an odd number of digits
bytes_fromhex(text) ==
    IF text.enc = "hex" /\ text.len % 2 = 0
    THEN [ok |-> TRUE, bytes |-> Bytes(text.len \div 2, text.val)]
    ELSE [ok |-> FALSE, bytes |-> NoBytes]

\* str.encode: UTF-8, raises on a lone surrogate
str_encode(text) ==
    IF text.enc = "surrogate"
    THEN [ok |-> FALSE, bytes |-> NoBytes]
    ELSE [ok |-> TRUE, bytes |-> Bytes(text.utf8, "utf8(" \o text.val \o ")")]

(***************************************************************************)
(* helpers/rsa.py: a key pair per user id; OAEP wrap and unwrap.           *)
(***************************************************************************)
PublicKey(u) == [kind |-> "public", of |-> u]
PrivateKey(u) == [kind |-> "private", of |-> u]
\* bytes that are no PEM private key at all
BadPem == [kind |-> "garbage", of |-> ""]

PrivateKeys == {PrivateKey(u) : u \in UserIds} \cup {BadPem}

encrypt_data(data, public_key, seed) ==
    [data |-> data, pk |-> public_key, seed |-> seed]

\* deserialize_private_key raises on garbage; private_key.decrypt raises
\* when the ciphertext was not made for that key.
decrypt_data(ciphertext, private_key) ==
    IF private_key.kind = "private" /\ ciphertext.pk = PublicKey(private_key.of)
    THEN [ok |-> TRUE, data |-> ciphertext.data]
    ELSE [ok |-> FALSE, data |-> NoDek]

\* serialize_private_key as text: the PEM of the key
serialize_private_key(private_key) == "pem(" \o private_key.of \o ")"

\* deserialize_private_key: the key a PEM stands for; any other text raises
deserialize_private_key(text) ==
    IF \E u \in UserIds : serialize_private_key(PrivateKey(u)) = text
    THEN PrivateKey(CHOOSE u \in UserIds :
                       serialize_private_key(PrivateKey(u)) = text)
    ELSE BadPem

\* verify_key_pair on the PEM of a private key and a public key
verify_key_pair(private_key, public_key) ==
    LET key == deserialize_private_key(private_key) IN
    IF key = BadPem THEN [status |-> "bad_pem", value |-> FALSE]
    ELSE [status |-> "ok", value |-> PublicKey(key.of) = public_key]

(***************************************************************************)
(* helpers/aes.py: AES-GCM under a key.  The output of encrypt is a        *)
(* sequence of bytes; a byte of it is known by the part it belongs to and  *)
(* by the key, the nonce and the plaintext it was computed from.           *)
(***************************************************************************)
AESKeySizes == {16, 24, 32}

\* AESHelper.try_encode_str; the result None is ok = FALSE.  hash_text
\* (uuid3) encodes the text as UTF-8 itself and raises on a lone surrogate.
try_encode_str(key) ==
    IF key.len \notin AESKeySizes /\ key.enc = "surrogate"
    THEN [status |-> "unicode_error", ok |-> FALSE, bytes |-> NoBytes]
    ELSE LET text == IF key.len \notin AESKeySizes
                     THEN UUID_hex(hash_text(key.val))
                     ELSE key
             hexed == bytes_fromhex(text)
             encoded == str_encode(text)
         IN IF hexed.ok
            THEN [status |-> "ok", ok |-> TRUE, bytes |-> hexed.bytes]
            ELSE IF encoded.ok
            THEN [status |-> "ok", ok |-> TRUE, bytes |-> encoded.bytes]
            ELSE [status |-> "ok", ok |-> FALSE, bytes |-> NoBytes]

\* AESHelper.__init__: the key of the helper, or the exception raised
AESHelper(key) ==
    IF key.type = "bytes" THEN [status |-> "ok", key |-> key]
    ELSE LET converted == try_encode_str(key) IN
         IF converted.status # "ok"
         THEN [status |-> converted.status, key |-> NoBytes]
         ELSE IF ~converted.ok
         THEN [status |-> "cannot_convert", key |-> NoBytes]
         ELSE [status |-> "ok", key |-> converted.bytes]

Byte(part, key, nonce, data, i) ==
    [part |-> part, key |-> key, nonce |-> nonce, data |-> data, i |-> i]

NonceBytes(nonce) == [i \in 1..16 |-> Byte("nonce", NoBytes, nonce, "", i)]
TagBytes(key, nonce, data) == [i \in 1..16 |-> Byte("tag", key, nonce, data, i)]
CipherBytes(key, nonce, data) ==
    [i \in 1..Len(data) |-> Byte("ciphertext", key, nonce, data, i)]

\* encrypted_data[lo - 1 : hi] of Python
Slice(bytes, lo, hi) ==
    SubSeq(bytes, lo, IF hi < Len(bytes) THEN hi ELSE Len(bytes))

\* AESHelper.encrypt with the nonce AES.new drew; AES.new raises on a key
\* that is not 16, 24 or 32 bytes long
encrypt(key, data, nonce) ==
    IF key.len \notin AESKeySizes
    THEN [status |-> "bad_key_length", out |-> <<>>]
    ELSE [status |-> "ok",
          out |-> NonceBytes(nonce) \o TagBytes(key, nonce, data)
                    \o CipherBytes(key, nonce, data)]

\* a decrypt that does not verify the tag
decrypt_NoVerify(key, encrypted_data) ==
    LET tag == Slice(encrypted_data, 17, 32) IN
    [status |-> "ok", data |-> IF tag = <<>> THEN "" ELSE tag[1].data]

\* a decrypt that takes the nonce to be 12 bytes long
decrypt_Nonce12(key, encrypted_data) ==
    LET nonce == Slice(encrypted_data, 1, 12)
        tag == Slice(encrypted_data, 13, 28)
        ciphertext == Slice(encrypted_data, 29, Len(encrypted_data))
    IN IF key.len \notin AESKeySizes
       THEN [status |-> "bad_key_length", data |-> ""]
       ELSE IF nonce = <<>> THEN [status |-> "nonce_empty", data |-> ""]
       ELSE IF /\ tag # <<>>
               /\ nonce = Slice(NonceBytes(tag[1].nonce), 1, 12)
               /\ tag = TagBytes(key, tag[1].nonce, tag[1].data)
               /\ ciphertext = CipherBytes(key, tag[1].nonce, tag[1].data)
            THEN [status |-> "ok", data |-> tag[1].data]
            ELSE [status |-> "mac_failed", data |-> ""]

\* AESHelper.decrypt: AES.new raises on a bad key length and on an empty
\* nonce, decrypt_and_verify raises "MAC check failed" unless the tag is
\* the tag of the ciphertext under the key and the nonce
decrypt(key, encrypted_data) ==
    LET nonce == Slice(encrypted_data, 1, 16)
        tag == Slice(encrypted_data, 17, 32)
        ciphertext == Slice(encrypted_data, 33, Len(encrypted_data))
    IN IF key.len \notin AESKeySizes
       THEN [status |-> "bad_key_length", data |-> ""]
       ELSE IF nonce = <<>> THEN [status |-> "nonce_empty", data |-> ""]
       ELSE IF /\ tag # <<>>
               /\ nonce = NonceBytes(tag[1].nonce)
               /\ tag = TagBytes(key, tag[1].nonce, tag[1].data)
               /\ ciphertext = CipherBytes(key, tag[1].nonce, tag[1].data)
            THEN [status |-> "ok", data |-> tag[1].data]
            ELSE [status |-> "mac_failed", data |-> ""]

\* AES(key).encrypt(data)
AES_encrypt(key, data, nonce) ==
    LET aes == AESHelper(key) IN
    IF aes.status # "ok" THEN [status |-> aes.status, out |-> <<>>]
    ELSE encrypt(aes.key, data, nonce)

\* AES(key).decrypt(encrypted_data)
AES_decrypt(key, encrypted_data) ==
    LET aes == AESHelper(key) IN
    IF aes.status # "ok" THEN [status |-> aes.status, data |-> ""]
    ELSE decrypt(aes.key, encrypted_data)

\* AESHelper.get_random_key(16): the n-th key drawn
get_random_key(n) == Bytes(16, "random" \o ToString(n))

(***************************************************************************)
(* models/user.py: the User record and the custody of the private key.     *)
(***************************************************************************)
NoUser == [id |-> "", public_key |-> BadPem,
           encrypted_private_key |-> [hex |-> FALSE, bytes |-> <<>>]]

\* the passphrase generate_phrase draws: eight words joined by "-"
Passphrase(name) == Str(43, "ascii", name, 43)

\* User.from_base before create(): the key pair, the passphrase, the
\* private key encrypted under the passphrase and stored as hexadecimal text
from_base(id, parmanent_password, nonce) ==
    LET encrypted_private_key ==
            AES_encrypt(parmanent_password,
                        serialize_private_key(PrivateKey(id)), nonce)
    IN [status |-> encrypted_private_key.status,
        user |-> [id |-> id, public_key |-> PublicKey(id),
                  encrypted_private_key |->
                      [hex |-> TRUE, bytes |-> encrypted_private_key.out]]]

\* User.get_private_key: AES(password), bytes.fromhex of the stored text,
\* decrypt, decode; each of them may raise
get_private_key(user, password) ==
    LET aes == AESHelper(password) IN
    IF aes.status # "ok" THEN [status |-> aes.status, key |-> ""]
    ELSE IF ~user.encrypted_private_key.hex
    THEN [status |-> "not_hex", key |-> ""]
    ELSE LET opened == decrypt(aes.key, user.encrypted_private_key.bytes) IN
         [status |-> opened.status, key |-> opened.data]

\* User.verify_private_key
verify_private_key(user, password) ==
    LET unlocked == get_private_key(user, password) IN
    IF unlocked.status # "ok"
    THEN [status |-> unlocked.status, value |-> FALSE]
    ELSE verify_key_pair(unlocked.key, user.public_key)

\* User.verify_password
verify_password(user, password) == verify_private_key(user, password)

(***************************************************************************)
(* State.                                                                  *)
(***************************************************************************)
VARIABLES
    users,      \* User table: set of User records
    documents,  \* Document table: set of Document records
    registry,   \* SharedKeyRegistry table: set of rows
    store,      \* DOCUMENT_STORE: path -> stored bytes
    nextDek,    \* the next fresh value of AES.get_random_key
    faults,     \* failures the environment may still inject
    proc        \* the request handlers in progress

vars == <<users, documents, registry, store, nextDek, faults, proc>>

Procs == DOMAIN proc


(***************************************************************************)
(* models/document.py: identity of a document and of its stored bytes.     *)
(***************************************************************************)
\* Document.upload, lines 218-219 and 229
doc_id(owner_id, filepath, content) ==
    hash_text(owner_id \o "-" \o filepath \o "-" \o hash_file(content))

local_path(id) == id \o ".bin"

NewDocument(owner_id, filepath, content) ==
    [id |-> doc_id(owner_id, filepath, content), filepath |-> filepath,
     owner_id |-> owner_id, hash |-> hash_file(content)]

\* SQLModelWithID.get_by_id on the Document table: the record, or NoDoc
Document_get_by_id(id) ==
    IF \E d \in documents : d.id = id
    THEN CHOOSE d \in documents : d.id = id
    ELSE NoDoc

\* the rows of select(SharedKeyRegistry).where(document_id == id, user_id == u)
RowsOf(id, u) == {r \in registry : r.document_id = id /\ r.user_id = u}

\* Document.shared_with
shared_with(id) == {r.user_id : r \in {x \in registry : x.document_id = id}}

\* SQLModelWithID.get_by_id on the User table: the record, or NoUser
User_get_by_id(id) ==
    IF \E x \in users : x.id = id
    THEN CHOOSE x \in users : x.id = id
    ELSE NoUser

\* User.get_id_obj_map: the requested ids that are stored users
get_id_obj_map(user_ids) == {x.id : x \in {y \in users : y.id \in user_ids}}

(***************************************************************************)
(* models/base.py on the SharedKeyRegistry table, whose primary key is     *)
(* (user_id, document_id).  update() and create() both add a new object to *)
(* a fresh session and commit: an INSERT, refused when the key is taken.   *)
(***************************************************************************)
SamePk(r1, r2) == r1.user_id = r2.user_id /\ r1.document_id = r2.document_id

\* an INSERT that does not look at the primary key
SQLModel_create_NoPrimaryKey(table, row) ==
    [ok |-> TRUE, table |-> table \cup {row}]

SQLModel_create(table, row) ==
    IF \E r \in table : SamePk(r, row)
    THEN [ok |-> FALSE, table |-> table]
    ELSE [ok |-> TRUE, table |-> table \cup {row}]

SQLModel_update(table, row) == SQLModel_create(table, row)

\* an upsert that writes nothing
SQLModel_upsert_Lost(table, row) == table

\* upsert: try update, then create; a second failure is only printed
SQLModel_upsert(table, row) ==
    LET first == SQLModel_update(table, row) IN
    IF first.ok THEN first.table
    ELSE LET second == SQLModel_create(table, row) IN
         IF second.ok THEN second.table ELSE table

\* a DELETE that matches on the user_id alone
SQLModel_delete_ByUser(table, id, u) == {r \in table : r.user_id # u}

\* SQLModel.delete of one registry row: DELETE by primary key
SQLModel_delete(table, id, u) ==
    {r \in table : ~(r.document_id = id /\ r.user_id = u)}

\* the row update_shared_keys_registry builds for one user
SharedKeyRow(id, u, dek, seed) ==
    [user_id |-> u, document_id |-> id,
     shared_key |-> encrypt_data(dek, PublicKey(u), seed)]

\* The OAEP padding of encrypt_data is random: a new wrap never equals the
\* wrap already stored for the same document and user.
FreshSeed(id, u) ==
    IF \E r \in RowsOf(id, u) : r.shared_key.seed = 0 THEN 1 ELSE 0

\* a get_dek that hands out the wrapped data without opening it
get_dek_NoUnwrap(id, u, user_private_key) ==
    LET rows == RowsOf(id, u) IN
    IF rows = {} THEN [status |-> "not_shared", dek |-> NoDek]
    ELSE [status |-> "ok", dek |-> (CHOOSE r \in rows : TRUE).shared_key.data]

\* a get_dek that reports a missing row like a wrong key
get_dek_OneError(id, u, user_private_key) ==
    LET rows == RowsOf(id, u) IN
    IF rows = {} THEN [status |-> "invalid_key", dek |-> NoDek]
    ELSE LET row == CHOOSE r \in rows : TRUE
             res == decrypt_data(row.shared_key, user_private_key)
         IN IF res.ok THEN [status |-> "ok", dek |-> res.data]
            ELSE [status |-> "invalid_key", dek |-> NoDek]

\* Document.get_dek
get_dek(id, u, user_private_key) ==
    LET rows == RowsOf(id, u) IN
    IF rows = {} THEN [status |-> "not_shared", dek |-> NoDek]
    ELSE LET row == CHOOSE r \in rows : TRUE
             res == decrypt_data(row.shared_key, user_private_key)
         IN IF res.ok THEN [status |-> "ok", dek |-> res.data]
            ELSE [status |-> "invalid_key", dek |-> NoDek]


(***************************************************************************)
(* Request processes.  A process holds the arguments and the local         *)
(* variables of the handler it runs; pc names the next store call.         *)
(***************************************************************************)
Idle ==
    [op |-> "none", pc |-> "done", doc |-> NoDoc, content |-> "",
     user_ids |-> {}, uid |-> "", key |-> BadPem, dek |-> NoDek,
     todo |-> {}, result |-> NoResult, before |-> {}, failed |-> "",
     secret |-> NoBytes, aes |-> NoBytes, nonce |-> 0, blob |-> <<>>]

\* secret, aes, nonce and blob are the locals of the callers of the cipher
\* and of the handlers that take a password.
\* before and failed are no variables of the handler.  before keeps the
\* registry as it was when the call began, for the statements about
\* rollback; only a call that begins while a failure can still be injected
\* can fail, so only such a call records it.  failed names the store call
\* of this handler that failed, if one did; for an upsert it stands for the
\* line "Failed to upsert" that upsert prints.
Started(op, pc, doc, content, user_ids, uid, key) ==
    [op |-> op, pc |-> pc, doc |-> doc, content |-> content,
     user_ids |-> user_ids, uid |-> uid, key |-> key, dek |-> NoDek,
     todo |-> {}, result |-> NoResult,
     before |-> IF faults > 0 /\ op \in {"upload", "share", "revoke"}
                THEN registry ELSE {},
     failed |-> "",
     secret |-> NoBytes, aes |-> NoBytes, nonce |-> 0, blob |-> <<>>]

\* the handler returns or raises: its locals are dropped
Returned(rec, status, sw, nsw, content) ==
    [rec EXCEPT !.pc = "done", !.dek = NoDek, !.todo = {}, !.content = "",
        !.result = [status |-> status, shared_with |-> sw,
                    not_shared_with |-> nsw, content |-> content]]

Raised(rec, status) == Returned(rec, status, {}, {}, "")

Set(p, rec) == proc' = [proc EXCEPT ![p] = rec]

\* where a handler continues after its loop over rows
AfterLoop(op) == IF op = "upload" THEN "u_write" ELSE "resp"

LoopPc(op, todo, pc) == IF todo = {} THEN AfterLoop(op) ELSE pc

(***************************************************************************)
(* Document.upload                                                         *)
(***************************************************************************)
\* an upload that does not look the owner up
UploadBegin_NoOwnerTest(p, owner_id, filepath, content, share_with) ==
    /\ proc[p].pc = "done"
    /\ nextDek <= MaxDeks
    /\ Set(p, Started("upload", "u_lookup",
                      NewDocument(owner_id, filepath, content), content,
                      share_with, "", BadPem))
    /\ UNCHANGED <<users, documents, registry, store, nextDek, faults>>

\* lines 214-219: the request arrives, the owner is looked up, the id is
\* computed
UploadBegin(p, owner_id, filepath, content, share_with) ==
    /\ proc[p].pc = "done"
    /\ nextDek <= MaxDeks
    /\ LET rec == Started("upload", "u_lookup",
                          NewDocument(owner_id, filepath, content), content,
                          share_with, "", BadPem)
       IN Set(p, IF User_get_by_id(owner_id) # NoUser THEN rec
                 ELSE Raised(rec, "user_not_found"))
    /\ UNCHANGED <<users, documents, registry, store, nextDek, faults>>

\* an upload that does not look for the stored document
UploadLookup_NoExistingCheck(p) ==
    /\ proc[p].pc = "u_lookup"
    /\ Set(p, [proc[p] EXCEPT !.pc = "u_create", !.dek = get_random_key(nextDek)])
    /\ nextDek' = nextDek + 1
    /\ UNCHANGED <<users, documents, registry, store, faults>>

\* lines 222-227: Document.get_by_id; a new document gets a fresh DEK
UploadLookup(p) ==
    /\ proc[p].pc = "u_lookup"
    /\ LET record == Document_get_by_id(proc[p].doc.id) IN
       IF record # NoDoc
       THEN /\ Set(p, [proc[p] EXCEPT !.pc = "resp", !.doc = record])
            /\ UNCHANGED nextDek
       ELSE /\ Set(p, [proc[p] EXCEPT !.pc = "u_create", !.dek = get_random_key(nextDek)])
            /\ nextDek' = nextDek + 1
    /\ UNCHANGED <<users, documents, registry, store, faults>>

\* lines 228-233: Document(...).create(), an INSERT on the primary key id
UploadCreate(p) ==
    /\ proc[p].pc = "u_create"
    /\ IF \E d \in documents : d.id = proc[p].doc.id
       THEN /\ Set(p, Raised(proc[p], "integrity_error"))
            /\ UNCHANGED documents
       ELSE /\ Set(p, [proc[p] EXCEPT !.pc = "k_map"])
            /\ documents' = documents \cup {proc[p].doc}
    /\ UNCHANGED <<users, registry, store, nextDek, faults>>

\* GCM draws a random nonce: it never equals the nonce of the bytes
\* already stored under the path
FreshNonce(path) ==
    IF path \in DOMAIN store /\ store[path] # <<>> /\ store[path][1].nonce = 0
    THEN 1 ELSE 0

\* an upload that stores the content as it came
UploadWrite_Plain(p) ==
    /\ proc[p].pc = "u_write"
    /\ store' = [path \in DOMAIN store \cup {local_path(proc[p].doc.id)} |->
                   IF path = local_path(proc[p].doc.id)
                   THEN [i \in 1..Len(proc[p].content) |->
                           Byte("plain", NoBytes, 0, proc[p].content, i)]
                   ELSE store[path]]
    /\ Set(p, [proc[p] EXCEPT !.pc = "resp"])
    /\ UNCHANGED <<users, documents, registry, nextDek, faults>>

\* lines 227 and 235: AES(dek).encrypt(content), write_content
UploadWrite(p) ==
    /\ proc[p].pc = "u_write"
    /\ store' = [path \in DOMAIN store \cup {local_path(proc[p].doc.id)} |->
                   IF path = local_path(proc[p].doc.id)
                   THEN AES_encrypt(proc[p].dek, proc[p].content,
                                    FreshNonce(path)).out
                   ELSE store[path]]
    /\ Set(p, [proc[p] EXCEPT !.pc = "resp"])
    /\ UNCHANGED <<users, documents, registry, nextDek, faults>>

(***************************************************************************)
(* Document.update_shared_keys_registry, called by upload and share        *)
(***************************************************************************)
\* line 159: User.get_id_obj_map
RegistryMap(p) ==
    /\ proc[p].pc = "k_map"
    /\ LET ids == IF proc[p].op = "upload"
                  THEN {proc[p].doc.owner_id} \cup proc[p].user_ids
                  ELSE proc[p].user_ids
           map == get_id_obj_map(ids)
       IN Set(p, [proc[p] EXCEPT !.todo = map,
                                 !.pc = LoopPc(proc[p].op, map, "k_wrap")])
    /\ UNCHANGED <<users, documents, registry, store, nextDek, faults>>

\* lines 160-166: one turn of the loop, wrap the DEK and upsert the row
RegistryWrap(p, u) ==
    /\ proc[p].pc = "k_wrap"
    /\ u \in proc[p].todo
    /\ registry' = SQLModel_upsert(registry,
                       SharedKeyRow(proc[p].doc.id, u, proc[p].dek,
                                    FreshSeed(proc[p].doc.id, u)))
    /\ Set(p, [proc[p] EXCEPT !.todo = @ \ {u},
                 !.pc = LoopPc(proc[p].op, proc[p].todo \ {u}, "k_wrap")])
    /\ UNCHANGED <<users, documents, store, nextDek, faults>>

\* Document._to_share_response, the last call of upload, share and revoke
Respond(p) ==
    /\ proc[p].pc = "resp"
    /\ LET sw == shared_with(proc[p].doc.id) IN
       Set(p, Returned(proc[p], "ok", sw, proc[p].user_ids \ sw, ""))
    /\ UNCHANGED <<users, documents, registry, store, nextDek, faults>>

(***************************************************************************)
(* Handlers that work on a stored document: the caller first loads it      *)
(* (Document.get, main.py line 112 and logic/deps.py line 71); an unknown  *)
(* id is answered 404 before any method of Document runs.                  *)
(***************************************************************************)
Load(p, op, pc, id, user_ids, uid, key) ==
    /\ proc[p].pc = "done"
    /\ Document_get_by_id(id) # NoDoc
    /\ Set(p, Started(op, pc, Document_get_by_id(id), "", user_ids, uid, key))
    /\ UNCHANGED <<users, documents, registry, store, nextDek, faults>>

(***************************************************************************)
(* Document.share                                                          *)
(***************************************************************************)
ShareBegin(p, id, user_ids, owner_private_key) ==
    Load(p, "share", "s_auth", id, user_ids, "", owner_private_key)

\* line 239: get_dek with the owner's id
ShareAuth(p) ==
    /\ proc[p].pc = "s_auth"
    /\ LET got == get_dek(proc[p].doc.id, proc[p].doc.owner_id, proc[p].key) IN
       Set(p, IF got.status = "ok"
              THEN [proc[p] EXCEPT !.pc = "k_map", !.dek = got.dek]
              ELSE Raised(proc[p], got.status))
    /\ UNCHANGED <<users, documents, registry, store, nextDek, faults>>

(***************************************************************************)
(* Document.revoke_access                                                  *)
(***************************************************************************)
RevokeBegin(p, id, user_ids, owner_private_key) ==
    Load(p, "revoke", "r_auth", id, user_ids, "", owner_private_key)

\* revoke_access without the owner test of lines 247-248
RevokeAuth_NoOwnerTest(p) ==
    /\ proc[p].pc = "r_auth"
    /\ LET got == get_dek(proc[p].doc.id, proc[p].doc.owner_id, proc[p].key) IN
       Set(p, IF got.status # "ok" THEN Raised(proc[p], got.status)
              ELSE [proc[p] EXCEPT !.pc = "r_select", !.dek = got.dek])
    /\ UNCHANGED <<users, documents, registry, store, nextDek, faults>>

\* lines 245-248: get_dek with the owner's id, then the owner test
RevokeAuth(p) ==
    /\ proc[p].pc = "r_auth"
    /\ LET got == get_dek(proc[p].doc.id, proc[p].doc.owner_id, proc[p].key) IN
       Set(p, IF got.status # "ok" THEN Raised(proc[p], got.status)
              ELSE IF proc[p].doc.owner_id \in proc[p].user_ids
                   THEN Raised(proc[p], "cannot_revoke_owner")
                   ELSE [proc[p] EXCEPT !.pc = "r_select", !.dek = got.dek])
    /\ UNCHANGED <<users, documents, registry, store, nextDek, faults>>

\* lines 249-256: the rows of the document for the listed users
RevokeSelect(p) ==
    /\ proc[p].pc = "r_select"
    /\ LET rows == {u \in proc[p].user_ids : RowsOf(proc[p].doc.id, u) # {}} IN
       Set(p, [proc[p] EXCEPT !.todo = rows,
                              !.pc = LoopPc(proc[p].op, rows, "row_delete")])
    /\ UNCHANGED <<users, documents, registry, store, nextDek, faults>>

\* lines 257-258: SharedKeyRegistry.delete(row), one row a turn; the rows
\* were loaded in a Session that is closed by now
RowDelete(p, u) ==
    /\ proc[p].pc = "row_delete"
    /\ u \in proc[p].todo
    /\ registry' = SQLModel_delete(registry, proc[p].doc.id, u)
    /\ Set(p, [proc[p] EXCEPT !.todo = @ \ {u},
                 !.pc = LoopPc(proc[p].op, proc[p].todo \ {u}, "row_delete")])
    /\ UNCHANGED <<users, documents, store, nextDek, faults>>

(***************************************************************************)
(* Document.download                                                       *)
(***************************************************************************)
DownloadBegin(p, id, user_id, user_private_key) ==
    Load(p, "download", "d_auth", id, {}, user_id, user_private_key)

\* line 263: get_dek with the requester's id
DownloadAuth(p) ==
    /\ proc[p].pc = "d_auth"
    /\ LET got == get_dek(proc[p].doc.id, proc[p].uid, proc[p].key) IN
       Set(p, IF got.status = "ok"
              THEN [proc[p] EXCEPT !.pc = "d_read", !.dek = got.dek]
              ELSE Raised(proc[p], got.status))
    /\ UNCHANGED <<users, documents, registry, store, nextDek, faults>>

\* lines 264-269: get_content reads local_path, AES(dek).decrypt opens it
DownloadRead(p) ==
    /\ proc[p].pc = "d_read"
    /\ LET path == local_path(proc[p].doc.id) IN
       IF path \notin DOMAIN store
       THEN Set(p, Raised(proc[p], "file_not_found"))
       ELSE LET opened == AES_decrypt(proc[p].dek, store[path]) IN
            Set(p, IF opened.status = "ok"
                   THEN Returned(proc[p], "ok", {}, {}, opened.data)
                   ELSE Raised(proc[p], opened.status))
    /\ UNCHANGED <<users, documents, registry, store, nextDek, faults>>

(***************************************************************************)
(* Document.delete                                                         *)
(***************************************************************************)
DeleteBegin(p, id) == Load(p, "delete", "x_store", id, {}, "", BadPem)

\* line 273: DOCUMENT_STORE.delete(self.filepath), unlink(missing_ok=True)
DeleteStore(p) ==
    /\ proc[p].pc = "x_store"
    /\ store' = [path \in DOMAIN store \ {proc[p].doc.filepath} |-> store[path]]
    /\ Set(p, [proc[p] EXCEPT !.pc = "x_select"])
    /\ UNCHANGED <<users, documents, registry, nextDek, faults>>

\* lines 276-284: every row of the document is loaded, and the loop over
\* them runs inside the "with Session" block that loaded them.  For the
\* first row SharedKeyRegistry.delete(row) opens a second Session and calls
\* db.delete(row) on an object that is still attached to the first one:
\* SQLAlchemy raises InvalidRequestError ("already attached to session")
\* before any statement is sent, and the exception leaves delete.
DeleteSelect(p) ==
    /\ proc[p].pc = "x_select"
    /\ LET rows == shared_with(proc[p].doc.id) IN
       Set(p, IF rows = {} THEN [proc[p] EXCEPT !.pc = "x_doc"]
              ELSE Raised(proc[p], "already_attached"))
    /\ UNCHANGED <<users, documents, registry, store, nextDek, faults>>

\* line 287: super().delete(); the shared_keys relationship cascades
DeleteDocument(p) ==
    /\ proc[p].pc = "x_doc"
    /\ documents' = {d \in documents : d.id # proc[p].doc.id}
    /\ registry' = {r \in registry : r.document_id # proc[p].doc.id}
    /\ Set(p, Returned(proc[p], "ok", {}, {}, ""))
    /\ UNCHANGED <<users, store, nextDek, faults>>

(***************************************************************************)
(* SQLModel.delete of a User: the shared_keys relationship cascades; the   *)
(* Document table has no cascade on owner_id and SQLite (config.py line    *)
(* 62) does not enforce the foreign key, so the user's documents stay.     *)
(***************************************************************************)
UserDelete(p, u) ==
    /\ proc[p].pc = "done"
    /\ User_get_by_id(u) # NoUser
    /\ users' = {x \in users : x.id # u}
    /\ registry' = {r \in registry : r.user_id # u}
    /\ Set(p, Returned(Started("user_delete", "done", NoDoc, "", {}, u, BadPem),
                       "ok", {}, {}, ""))
    /\ UNCHANGED <<documents, store, nextDek, faults>>

(***************************************************************************)
(* main.py, the handlers of the accounts.                                  *)
(***************************************************************************)
\* create_user, lines 51-54: User.from_base and its create(), an INSERT on
\* the primary key id; the passphrase is the answer.  A passphrase is 43
\* ASCII characters, which AESHelper always turns into a 16-byte key.
UserCreate(p, id, parmanent_password) ==
    /\ proc[p].pc = "done"
    /\ LET made == from_base(id, parmanent_password, 0)
           rec == [Started("create_user", "done", NoDoc, "", {}, id, BadPem)
                      EXCEPT !.secret = parmanent_password]
       IN IF User_get_by_id(id) # NoUser
          THEN Set(p, Raised(rec, "integrity_error")) /\ UNCHANGED users
          ELSE /\ users' = users \cup {made.user}
               /\ Set(p, Returned(rec, "ok", {}, {}, parmanent_password.val))
    /\ UNCHANGED <<documents, registry, store, nextDek, faults>>

\* login, lines 32-47: 401 for an unknown user and for a password that
\* verify_password answers False for; an exception of verify_password
\* leaves the handler
Login(p, username, password) ==
    /\ proc[p].pc = "done"
    /\ LET user == User_get_by_id(username)
           verified == verify_password(user, password)
           rec == [Started("login", "done", NoDoc, "", {}, username, BadPem)
                      EXCEPT !.secret = password]
       IN Set(p, IF user = NoUser THEN Raised(rec, "unauthorized")
                 ELSE IF verified.status # "ok" THEN Raised(rec, verified.status)
                 ELSE IF ~verified.value THEN Raised(rec, "unauthorized")
                 ELSE Returned(rec, "ok", {}, {}, ""))
    /\ UNCHANGED <<users, documents, registry, store, nextDek, faults>>

\* get_current_user, lines 17-29: as login, then get_private_key; the
\* answer is the private key
Authenticate(p, username, password) ==
    /\ proc[p].pc = "done"
    /\ LET user == User_get_by_id(username)
           verified == verify_password(user, password)
           unlocked == get_private_key(user, password)
           rec == [Started("authenticate", "done", NoDoc, "", {}, username,
                           BadPem) EXCEPT !.secret = password]
       IN Set(p, IF user = NoUser THEN Raised(rec, "unauthorized")
                 ELSE IF verified.status # "ok" THEN Raised(rec, verified.status)
                 ELSE IF ~verified.value THEN Raised(rec, "unauthorized")
                 ELSE Returned(rec, "ok", {}, {}, unlocked.key))
    /\ UNCHANGED <<users, documents, registry, store, nextDek, faults>>

(***************************************************************************)
(* helpers/aes.py, a caller of the cipher: a helper is made for a key, it  *)
(* encrypts a plaintext, and it decrypts what it encrypted.                *)
(***************************************************************************)
CipherBegin(p, key, data, nonce) ==
    /\ proc[p].pc = "done"
    /\ Set(p, [Started("cipher", "c_init", NoDoc, data, {}, "", BadPem)
                  EXCEPT !.secret = key, !.nonce = nonce])
    /\ UNCHANGED <<users, documents, registry, store, nextDek, faults>>

CipherInit(p) ==
    /\ proc[p].pc = "c_init"
    /\ LET aes == AESHelper(proc[p].secret) IN
       Set(p, IF aes.status # "ok" THEN Raised(proc[p], aes.status)
              ELSE [proc[p] EXCEPT !.pc = "c_encrypt", !.aes = aes.key])
    /\ UNCHANGED <<users, documents, registry, store, nextDek, faults>>

CipherEncrypt(p) ==
    /\ proc[p].pc = "c_encrypt"
    /\ LET encrypted_data == encrypt(proc[p].aes, proc[p].content, proc[p].nonce)
       IN Set(p, IF encrypted_data.status # "ok"
                 THEN Raised(proc[p], encrypted_data.status)
                 ELSE [proc[p] EXCEPT !.pc = "c_decrypt",
                                      !.blob = encrypted_data.out])
    /\ UNCHANGED <<users, documents, registry, store, nextDek, faults>>

CipherDecrypt(p) ==
    /\ proc[p].pc = "c_decrypt"
    /\ LET decrypted_data == decrypt(proc[p].aes, proc[p].blob) IN
       Set(p, IF decrypted_data.status # "ok"
              THEN Raised(proc[p], decrypted_data.status)
              ELSE Returned(proc[p], "ok", {}, {}, decrypted_data.data))
    /\ UNCHANGED <<users, documents, registry, store, nextDek, faults>>

(***************************************************************************)
(* The bytes kept by the byte store are changed outside the program: one   *)
(* byte of the nonce, of the tag or of the ciphertext is changed, the file *)
(* is cut short or emptied, or it is replaced by an encryption of the same *)
(* content under another key.                                              *)
(***************************************************************************)
Tampered(bytes, how) ==
    CASE how = "nonce" -> [bytes EXCEPT ![1].part = "changed"]
      [] how = "tag" -> [bytes EXCEPT ![17].part = "changed"]
      [] how = "ciphertext" -> [bytes EXCEPT ![Len(bytes)].part = "changed"]
      [] how = "cut" -> SubSeq(bytes, 1, 20)
      [] how = "empty" -> <<>>
      [] how = "rekey" ->
            encrypt(get_random_key(0), bytes[17].data, bytes[17].nonce).out

Tamper(path, how) ==
    /\ faults > 0
    /\ path \in DOMAIN store
    /\ Len(store[path]) > 32
    /\ faults' = faults - 1
    /\ store' = [store EXCEPT ![path] = Tampered(store[path], how)]
    /\ UNCHANGED <<users, documents, registry, nextDek, proc>>

(***************************************************************************)
(* Failures of the stores.  A call on the relational store or on the byte  *)
(* store may raise (a locked database, a full disk).  upsert catches every *)
(* exception of its two attempts and prints; anywhere else the exception   *)
(* leaves the handler.                                                     *)
(***************************************************************************)
\* models/base.py lines 32-36: the row is not written, the loop goes on
FailUpsert(p, u) ==
    /\ faults > 0
    /\ proc[p].pc = "k_wrap"
    /\ u \in proc[p].todo
    /\ faults' = faults - 1
    /\ Set(p, [proc[p] EXCEPT !.todo = @ \ {u}, !.failed = "k_wrap",
                 !.pc = LoopPc(proc[p].op, proc[p].todo \ {u}, "k_wrap")])
    /\ UNCHANGED <<users, documents, registry, store, nextDek>>

\* the store call the handler is about to make raises
FailStep(p) ==
    /\ faults > 0
    /\ proc[p].pc \notin {"done", "k_wrap"}
    /\ faults' = faults - 1
    /\ Set(p, [Raised(proc[p], "store_error") EXCEPT !.failed = proc[p].pc])
    /\ UNCHANGED <<users, documents, registry, store, nextDek>>

(***************************************************************************)
(* Inputs of the requests.                                                 *)
(***************************************************************************)
\* one ordinary upload, and one whose file name is the stored path of the
\* first document (file.filename is chosen by the client, main.py line 70)
Report == [owner_id |-> "a-b", filepath |-> "c", content |-> "hello"]
Shadow == [owner_id |-> "a",
           filepath |-> local_path(doc_id("a-b", "c", "hello")),
           content |-> "bye"]
Uploads == {Report, Shadow}

DocIds == {doc_id(b.owner_id, b.filepath, b.content) : b \in Uploads}

\* the user-id lists of share_with and user_ids: one recipient, two
\* recipients, and a list that names the owner of Report
UserLists == {{"a"}, {"a", "u"}, {"a-b", "u"}}

(***************************************************************************)
(* Specifications.                                                         *)
(***************************************************************************)
\* the accounts are provisioned, nothing is uploaded, n handlers can run
InitWith(n, f) ==
    /\ users = {from_base(u, Passphrase("phrase-" \o u), 0).user : u \in UserIds}
    /\ documents = {}
    /\ registry = {}
    /\ store = [path \in {} |-> <<>>]
    /\ nextDek = 1
    /\ faults = f
    /\ proc = [p \in 1..n |-> Idle]

\* a request arrives; its arguments are drawn from the sets of inputs in
Begin(p, in) ==
    \/ \E b \in in.uploads, l \in in.lists \cup {{}} :
          UploadBegin(p, b.owner_id, b.filepath, b.content, l)
    \/ \E id \in in.ids, l \in in.lists, k \in in.keys : ShareBegin(p, id, l, k)
    \/ \E id \in in.ids, l \in in.lists, k \in in.keys : RevokeBegin(p, id, l, k)
    \/ \E id \in in.ids, u \in in.uids, k \in in.keys :
          DownloadBegin(p, id, u, k)
    \/ \E id \in in.ids : DeleteBegin(p, id)
    \/ \E u \in in.uids : UserDelete(p, u)

Step(p) ==
    \/ UploadLookup(p)
    \/ UploadCreate(p)
    \/ RegistryMap(p)
    \/ \E u \in UserIds : RegistryWrap(p, u)
    \/ UploadWrite(p)
    \/ Respond(p)
    \/ ShareAuth(p)
    \/ RevokeAuth(p)
    \/ RevokeSelect(p)
    \/ \E u \in UserIds : RowDelete(p, u)
    \/ DownloadAuth(p)
    \/ DownloadRead(p)
    \/ DeleteStore(p)
    \/ DeleteSelect(p)
    \/ DeleteDocument(p)

Fail(p) ==
    \/ \E u \in UserIds : FailUpsert(p, u)
    \/ FailStep(p)

\* one request at a time, every input
AllInputs ==
    [uploads |-> Uploads, ids |-> DocIds, lists |-> UserLists,
     keys |-> PrivateKeys, uids |-> UserIds]

Next ==
    \/ \E p \in Procs : Begin(p, AllInputs)
    \/ \E p \in Procs : Step(p)

Init == InitWith(1, 0)
Spec == Init /\ [][Next]_vars

\* two requests interleave on one document
ConcInputs ==
    [uploads |-> {Report}, ids |-> {doc_id("a-b", "c", "hello")},
     lists |-> {{"a"}}, keys |-> {PrivateKey("a-b")}, uids |-> {"a", "a-b"}]

NextConc ==
    \/ \E p \in Procs : Begin(p, ConcInputs)
    \/ \E p \in Procs : Step(p)

InitConc == InitWith(2, 0)
SpecConc == InitConc /\ [][NextConc]_vars

\* one request at a time, and calls on the stores may fail
FaultInputs ==
    [uploads |-> {Report}, ids |-> {doc_id("a-b", "c", "hello")},
     lists |-> {{"a", "u"}}, keys |-> {PrivateKey("a-b")},
     uids |-> {"a", "a-b"}]

NextFault ==
    \/ \E p \in Procs : Begin(p, FaultInputs)
    \/ \E p \in Procs : Step(p)
    \/ \E p \in Procs : Fail(p)

InitFault == InitWith(1, MaxFaults)
SpecFault == InitFault /\ [][NextFault]_vars

\* the bytes of the byte store may be changed between the requests
TamperInputs ==
    [uploads |-> {Report}, ids |-> {doc_id("a-b", "c", "hello")},
     lists |-> {{"a"}}, keys |-> {PrivateKey("a-b"), PrivateKey("a")},
     uids |-> {"a", "a-b"}]

Tampers == {"nonce", "tag", "ciphertext", "cut", "empty", "rekey"}

NextTamper ==
    \/ \E p \in Procs : Begin(p, TamperInputs)
    \/ \E p \in Procs : Step(p)
    \/ \E path \in DOMAIN store, how \in Tampers : Tamper(path, how)

SpecTamper == InitFault /\ [][NextTamper]_vars

\* accounts are created and passwords are tried
Passphrases == {Passphrase("one"), Passphrase("two")}

\* the passwords tried: the two passphrases, the 32 hexadecimal digits of
\* the uuid3 of the first, 16 hexadecimal digits, and a text that has no
\* UTF-8 encoding
Passwords ==
    Passphrases \cup {UUID_hex(hash_text("one")),
                      Str(16, "hex", "0123456789abcdef", 16),
                      Str(8, "surrogate", "pass\\ud800", 8)}

InitIdentity ==
    /\ users = {}
    /\ documents = {}
    /\ registry = {}
    /\ store = [path \in {} |-> <<>>]
    /\ nextDek = 1
    /\ faults = 0
    /\ proc = [p \in 1..1 |-> Idle]

NextIdentity ==
    \/ \E p \in Procs, u \in UserIds, w \in Passphrases : UserCreate(p, u, w)
    \/ \E p \in Procs, u \in UserIds, w \in Passwords : Login(p, u, w)
    \/ \E p \in Procs, u \in UserIds, w \in Passwords : Authenticate(p, u, w)

SpecIdentity == InitIdentity /\ [][NextIdentity]_vars

\* the cipher is applied to keys and plaintexts
CipherKeys ==
    {get_random_key(1), Bytes(24, "k24"), Bytes(32, "k32"),
     Passphrase("one"),
     Str(16, "hex", "0123456789abcdef", 16),
     Str(24, "hex", "0123456789abcdef01234567", 24),
     Str(32, "hex", "0123456789abcdef0123456789abcdef", 32),
     Str(16, "ascii", "sixteen byte key", 16),
     Str(16, "wide", "sixteen wide chr", 32),
     Str(16, "wide", "fifteen + 1 wide", 17),
     Str(16, "surrogate", "sixteen + \\ud800", 16),
     Str(8, "surrogate", "pass\\ud800", 8)}

Plaintexts == {"", "hello"}

Nonces == {0, 1}

NextCipher ==
    \/ \E p \in Procs, k \in CipherKeys, d \in Plaintexts, n \in Nonces :
          CipherBegin(p, k, d, n)
    \/ \E p \in Procs : CipherInit(p)
    \/ \E p \in Procs : CipherEncrypt(p)
    \/ \E p \in Procs : CipherDecrypt(p)

SpecCipher == Init /\ [][NextCipher]_vars

(***************************************************************************)
(* Vocabulary of the claims.                                               *)
(***************************************************************************)
ReportId == doc_id(Report.owner_id, Report.filepath, Report.content)

\* process p takes a step
Steps(p) == proc'[p] # proc[p]

\* user_private_key opens the wrap stored for (id, u)
Unwraps(id, u, user_private_key) ==
    \E r \in RowsOf(id, u) : decrypt_data(r.shared_key, user_private_key).ok

(***************************************************************************)
(* C1: the registry holds at most one row per (document_id, user_id),      *)
(* whatever requests ran and however two of them interleaved.              *)
(***************************************************************************)
C1_OneRowPerPair ==
    \A r1 \in registry, r2 \in registry : SamePk(r1, r2) => r1 = r2

\* two share calls in flight have both finished their upserts for user "a"
C1_Witness ==
    /\ \A p \in Procs : proc[p].op = "share" /\ proc[p].pc = "resp"
                        /\ "a" \in proc[p].user_ids
    /\ Cardinality(Procs) = 2
    /\ RowsOf(ReportId, "a") # {}

(***************************************************************************)
(* C2: whenever a Document record exists, the registry holds the row of    *)
(* its owner.                                                              *)
(***************************************************************************)
C2_OwnerRowAlways ==
    \A d \in documents : RowsOf(d.id, d.owner_id) # {}

(***************************************************************************)
(* C3: a step of share or revoke_access changes the registry only if the   *)
(* supplied key opened the owner's row; when the key does not open it the  *)
(* call ends in an error at once and the registry is as before.            *)
(***************************************************************************)
C3_OwnerKeyGuards ==
    [][\A p \in Procs :
         (proc[p].op \in {"share", "revoke"} /\ proc[p].pc # "done" /\ Steps(p)) =>
            /\ registry' # registry =>
                 proc[p].key = PrivateKey(proc[p].doc.owner_id)
            /\ (/\ proc[p].pc \in {"s_auth", "r_auth"}
                /\ ~Unwraps(proc[p].doc.id, proc[p].doc.owner_id, proc[p].key)) =>
                 /\ registry' = registry
                 /\ proc'[p].pc = "done"
                 /\ proc'[p].result.status \in {"not_shared", "invalid_key"}]_vars

\* a user who holds a row but is not the owner was refused with his own key
C3_Witness ==
    \E p \in Procs :
       /\ proc[p].op \in {"share", "revoke"}
       /\ proc[p].pc = "done"
       /\ proc[p].result.status = "invalid_key"
       /\ proc[p].key = PrivateKey("a")
       /\ proc[p].doc.owner_id = "a-b"
       /\ Unwraps(proc[p].doc.id, "a", proc[p].key)

(***************************************************************************)
(* C4: download answers "not shared" when the requester has no row and     *)
(* "invalid key" when the row is there and the key does not open it; both  *)
(* end the call with no content, and the two answers differ.               *)
(***************************************************************************)
C4_DownloadRefusals ==
    [][\A p \in Procs :
         (proc[p].op = "download" /\ proc[p].pc = "d_auth" /\ Steps(p)) =>
            /\ RowsOf(proc[p].doc.id, proc[p].uid) = {} =>
                 /\ proc'[p].pc = "done"
                 /\ proc'[p].result.status = "not_shared"
                 /\ proc'[p].result.content = ""
            /\ (/\ RowsOf(proc[p].doc.id, proc[p].uid) # {}
                /\ ~Unwraps(proc[p].doc.id, proc[p].uid, proc[p].key)) =>
                 /\ proc'[p].pc = "done"
                 /\ proc'[p].result.status = "invalid_key"
                 /\ proc'[p].result.content = ""]_vars

\* a holder of a row was refused for a key that is not his
C4_Witness ==
    \E p \in Procs :
       /\ proc[p].op = "download"
       /\ proc[p].pc = "done"
       /\ proc[p].result.status = "invalid_key"
       /\ RowsOf(proc[p].doc.id, proc[p].uid) # {}
       /\ proc[p].key # PrivateKey(proc[p].uid)

(***************************************************************************)
(* C5: a recipient who holds a row downloads exactly the uploaded          *)
(* plaintext; once a revoke_access that lists him has returned, his row is *)
(* gone, a download without a row is answered "not shared", and a row      *)
(* comes back only by a wrap of upload or share.                           *)
(***************************************************************************)
\* the content whose hash the Document record carries
PlainOf(doc) ==
    (CHOOSE b \in Uploads : hash_file(b.content) = doc.hash).content

RowsIn(table, id, u) == {r \in table : r.document_id = id /\ r.user_id = u}

C5_RecipientUntilRevoked ==
    [][\A p \in Procs : Steps(p) =>
         /\ (/\ proc[p].op = "download" /\ proc[p].pc = "d_auth"
             /\ Unwraps(proc[p].doc.id, proc[p].uid, proc[p].key)) =>
               proc'[p].pc = "d_read"
         /\ (proc[p].op = "download" /\ proc[p].pc = "d_read") =>
               /\ proc'[p].result.status = "ok"
               /\ proc'[p].result.content = PlainOf(proc[p].doc)
         /\ (/\ proc[p].op = "download" /\ proc[p].pc = "d_auth"
             /\ RowsOf(proc[p].doc.id, proc[p].uid) = {}) =>
               proc'[p].result.status = "not_shared"
         /\ (/\ proc[p].op = "revoke" /\ proc[p].pc = "resp") =>
               \A u \in proc[p].user_ids : RowsOf(proc[p].doc.id, u) = {}
         /\ \A id \in DocIds, u \in UserIds :
               (RowsOf(id, u) = {} /\ RowsIn(registry', id, u) # {}) =>
                  /\ proc[p].op \in {"upload", "share"}
                  /\ proc[p].pc = "k_wrap"
                  /\ proc[p].doc.id = id]_vars

(***************************************************************************)
(* C6: when upload of a new document returns, the users that hold a row of *)
(* it are the owner and every id of share_with; revoke_access removes the  *)
(* rows of the listed ids and no other, and none of them is left when it   *)
(* returns.                                                                *)
(***************************************************************************)
C6_RevokePart(p) ==
    /\ (proc[p].op = "revoke" /\ proc[p].pc = "row_delete") =>
          \E u \in proc[p].user_ids :
             registry' = registry \ RowsOf(proc[p].doc.id, u)
    /\ (proc[p].op = "revoke" /\ proc[p].pc = "resp") =>
          shared_with(proc[p].doc.id) \cap proc[p].user_ids = {}

C6_AccessListAsRequested ==
    [][\A p \in Procs : Steps(p) =>
         /\ (proc[p].op = "upload" /\ proc[p].pc = "resp" /\ proc[p].dek # NoDek) =>
               shared_with(proc[p].doc.id) =
                  {proc[p].doc.owner_id} \cup proc[p].user_ids
         /\ C6_RevokePart(p)]_vars

(***************************************************************************)
(* C7: revoke_access with the owner's id in user_ids deletes no row at any *)
(* of its steps and ends in an error, which with the owner's key is        *)
(* "cannot revoke the owner".                                              *)
(***************************************************************************)
C7_OwnerNeverRevoked ==
    [][\A p \in Procs :
         (/\ proc[p].op = "revoke" /\ proc[p].pc # "done" /\ Steps(p)
          /\ proc[p].doc.owner_id \in proc[p].user_ids) =>
            /\ registry' = registry
            /\ proc'[p].pc = "done"
            /\ proc'[p].result.status # "ok"
            /\ Unwraps(proc[p].doc.id, proc[p].doc.owner_id, proc[p].key) =>
                 proc'[p].result.status = "cannot_revoke_owner"]_vars

\* the call listed the owner and a user who holds a row, and that row stays
C7_Witness ==
    \E p \in Procs :
       /\ proc[p].op = "revoke" /\ proc[p].pc = "done"
       /\ proc[p].result.status = "cannot_revoke_owner"
       /\ proc[p].user_ids = {"a-b", "u"}
       /\ RowsOf(proc[p].doc.id, "u") # {}

(***************************************************************************)
(* C8: when Document.delete returns, the Document record is gone, no row   *)
(* of the document is left and the byte store no longer holds the bytes    *)
(* upload wrote for it.                                                    *)
(***************************************************************************)
C8_DeleteRemovesAll ==
    \A p \in Procs :
       (proc[p].op = "delete" /\ proc[p].pc = "done"
        /\ proc[p].result.status = "ok") =>
          /\ Document_get_by_id(proc[p].doc.id) = NoDoc
          /\ shared_with(proc[p].doc.id) = {}
          /\ local_path(proc[p].doc.id) \notin DOMAIN store

(***************************************************************************)
(* C9: Document.delete is all or nothing: every step of a delete either    *)
(* leaves the stored bytes, the rows and the Document record of its        *)
(* document as they are or leaves none of the three.                       *)
(***************************************************************************)
PartsOf(docs, table, bytes, id) ==
    <<\E d \in docs : d.id = id,
      \E r \in table : r.document_id = id,
      local_path(id) \in DOMAIN bytes>>

Gone == <<FALSE, FALSE, FALSE>>

C9_DeleteAllOrNothing ==
    [][\A p \in Procs :
         (proc[p].op = "delete" /\ proc[p].pc # "done" /\ Steps(p)) =>
            \/ PartsOf(documents', registry', store', proc[p].doc.id) =
                  PartsOf(documents, registry, store, proc[p].doc.id)
            \/ PartsOf(documents', registry', store', proc[p].doc.id) = Gone]_vars

(***************************************************************************)
(* C10: a call of upload, share or revoke_access in which the write or the *)
(* deletion of a registry row failed leaves the registry as it was before  *)
(* the call.                                                               *)
(***************************************************************************)
C10_FailedCallRollsBack ==
    \A p \in Procs :
       (/\ proc[p].pc = "done"
        /\ proc[p].op \in {"upload", "share", "revoke"}
        /\ proc[p].failed \in {"k_wrap", "row_delete"}) =>
          registry = proc[p].before

(***************************************************************************)
(* C11: an upload whose document id is already stored changes neither the  *)
(* Document table nor the registry nor the byte store and draws no new     *)
(* key; it answers with the stored document, under the same id, and with   *)
(* the users that hold a row of it.                                        *)
(***************************************************************************)
C11_SecondUploadChangesNothing ==
    [][\A p \in Procs :
         (/\ proc[p].op = "upload" /\ Steps(p)
          /\ Document_get_by_id(proc[p].doc.id) # NoDoc
          /\ \/ proc[p].pc = "u_lookup"
             \/ proc[p].pc = "resp" /\ proc[p].dek = NoDek) =>
            /\ UNCHANGED <<documents, registry, store, nextDek>>
            /\ proc'[p].doc = Document_get_by_id(proc[p].doc.id)
            /\ proc'[p].pc \in {"resp", "done"}
            /\ proc'[p].pc = "done" =>
                 /\ proc'[p].result.status = "ok"
                 /\ proc'[p].result.shared_with = shared_with(proc[p].doc.id)]_vars

\* Report was uploaded for "a" alone; a second upload of it, with the
\* recipients "a" and "u", has returned
C11_Witness ==
    \E p \in Procs :
       /\ proc[p].op = "upload" /\ proc[p].pc = "done"
       /\ proc[p].doc = NewDocument("a-b", "c", "hello")
       /\ proc[p].user_ids = {"a", "u"}
       /\ proc[p].result.status = "ok"
       /\ proc[p].result.not_shared_with = {"u"}
       /\ User_get_by_id("u") # NoUser
       /\ shared_with(ReportId) = {"a-b", "a"}
       /\ local_path(ReportId) \in DOMAIN store

(***************************************************************************)
(* C12: of two uploads of the same (owner_id, filepath, content) that run  *)
(* at once one creates the Document record; the other, when it comes to    *)
(* create the record and finds it stored, changes nothing and goes on to   *)
(* answer with the stored sharing state, without an error.                 *)
(***************************************************************************)
C12_RaceLoserReturnsState ==
    [][\A p \in Procs :
         (/\ proc[p].op = "upload" /\ proc[p].pc = "u_create" /\ Steps(p)
          /\ Document_get_by_id(proc[p].doc.id) # NoDoc) =>
            /\ UNCHANGED <<documents, registry, store>>
            /\ proc'[p].pc = "resp"
            /\ proc'[p].result.status # "integrity_error"]_vars

(***************************************************************************)
(* C13: a document id becomes active only by the create step of upload and *)
(* stops being active only by the last step of delete; once a delete of    *)
(* the id has returned, no document with that id is active, whatever the   *)
(* other requests do afterwards.                                           *)
(***************************************************************************)
Active(docs, id) == \E d \in docs : d.id = id

DeleteReturned(id) ==
    \E p \in Procs :
       /\ proc[p].op = "delete" /\ proc[p].pc = "done"
       /\ proc[p].result.status = "ok" /\ proc[p].doc.id = id

C13_DeletedIsTerminal ==
    [][\A id \in DocIds :
         /\ (~Active(documents, id) /\ Active(documents', id)) =>
               \E p \in Procs : /\ proc[p].op = "upload"
                                 /\ proc[p].pc = "u_create"
                                 /\ proc[p].doc.id = id /\ Steps(p)
         /\ (Active(documents, id) /\ ~Active(documents', id)) =>
               \E p \in Procs : /\ proc[p].op = "delete"
                                 /\ proc[p].pc = "x_doc"
                                 /\ proc[p].doc.id = id /\ Steps(p)
         /\ DeleteReturned(id)' => ~Active(documents', id)]_vars

(***************************************************************************)
(* C20: when share comes to its answer without an error, every id of       *)
(* user_ids holds a row of the document that wraps the DEK share recovered *)
(* from the owner's row, and the answer lists every id of user_ids as      *)
(* shared with and none as not shared with.                                *)
(***************************************************************************)
C20_ShareCoversAll ==
    [][\A p \in Procs :
         (proc[p].op = "share" /\ proc[p].pc = "resp" /\ Steps(p)) =>
            /\ \A u \in proc[p].user_ids :
                  \E r \in RowsOf(proc[p].doc.id, u) :
                     r.shared_key = encrypt_data(proc[p].dek, PublicKey(u),
                                                 r.shared_key.seed)
            /\ proc[p].user_ids \subseteq proc'[p].result.shared_with
            /\ proc'[p].result.not_shared_with = {}]_vars

(***************************************************************************)
(* C14: in every state the bytes stored under a path are the AES-GCM       *)
(* encryption of the content of the document of that path under a key that *)
(* get_random_key handed out, the shared_key of every registry row is such *)
(* a key wrapped under the public key of the user of the row, and a User   *)
(* record holds, next to its id and its public key, only the encryption of *)
(* its private key under its passphrase.                                   *)
(***************************************************************************)
C14_OnlyCiphertextStored ==
    /\ \A path \in DOMAIN store :
          \E b \in Uploads, n \in 1..(nextDek - 1), nonce \in Nonces :
             /\ path = local_path(doc_id(b.owner_id, b.filepath, b.content))
             /\ store[path] =
                   encrypt(get_random_key(n), b.content, nonce).out
    /\ \A r \in registry :
          \E n \in 1..(nextDek - 1) :
             r.shared_key = encrypt_data(get_random_key(n),
                                         PublicKey(r.user_id), r.shared_key.seed)
    /\ \A x \in users :
          /\ DOMAIN x = {"id", "public_key", "encrypted_private_key"}
          /\ x.public_key = PublicKey(x.id)
          /\ \E nonce \in Nonces :
                x.encrypted_private_key =
                   [hex |-> TRUE,
                    bytes |-> AES_encrypt(Passphrase("phrase-" \o x.id),
                                          serialize_private_key(PrivateKey(x.id)),
                                          nonce).out]

\* both documents are stored, Report with rows of three users
C14_Witness ==
    /\ \A b \in Uploads :
          local_path(doc_id(b.owner_id, b.filepath, b.content)) \in DOMAIN store
    /\ shared_with(ReportId) = {"a-b", "a", "u"}
    /\ Cardinality(users) = 3

(***************************************************************************)
(* C15: download hands out content only if the requester's key opened his  *)
(* row and the stored bytes are an encryption of the document's content    *)
(* under the recovered key, and then it is that content; when the stored   *)
(* bytes are anything else (changed, cut, or made under another key) the   *)
(* call ends in the error of decrypt with no content.                      *)
(***************************************************************************)
Genuine(bytes, key, data) ==
    \E nonce \in Nonces : bytes = encrypt(key, data, nonce).out

C15_DownloadFailsClosed ==
    [][\A p \in Procs : (proc[p].op = "download" /\ Steps(p)) =>
         /\ (/\ proc[p].pc = "d_auth"
             /\ ~Unwraps(proc[p].doc.id, proc[p].uid, proc[p].key)) =>
               /\ proc'[p].pc = "done"
               /\ proc'[p].result.status # "ok"
               /\ proc'[p].result.content = ""
         /\ (/\ proc[p].pc = "d_read"
             /\ local_path(proc[p].doc.id) \in DOMAIN store) =>
               LET bytes == store[local_path(proc[p].doc.id)]
                   genuine == Genuine(bytes, proc[p].dek, PlainOf(proc[p].doc))
               IN /\ genuine =>
                       /\ proc'[p].result.status = "ok"
                       /\ proc'[p].result.content = PlainOf(proc[p].doc)
                  /\ ~genuine =>
                       /\ proc'[p].result.status \in {"mac_failed", "nonce_empty"}
                       /\ proc'[p].result.content = ""]_vars

\* the owner's download failed on stored bytes that had been changed
C15_Witness ==
    \E p \in Procs :
       /\ proc[p].op = "download" /\ proc[p].pc = "done"
       /\ proc[p].result.status = "mac_failed"
       /\ Unwraps(proc[p].doc.id, proc[p].uid, proc[p].key)
       /\ local_path(proc[p].doc.id) \in DOMAIN store
       /\ Len(store[local_path(proc[p].doc.id)]) > 32
       /\ store[local_path(proc[p].doc.id)][Len(PlainOf(proc[p].doc)) + 32].part
             = "changed"

(***************************************************************************)
(* C16: a login answers from what verify_password returned, True or False, *)
(* and never ends in an exception of verify_password: a password that does *)
(* not unlock the stored private key is answered 401, and no table and no  *)
(* stored byte changes.                                                    *)
(***************************************************************************)
C16_VerifyNeverRaises ==
    [][\A p \in Procs : (proc'[p].op = "login" /\ Steps(p)) =>
         /\ proc'[p].result.status \in {"ok", "unauthorized"}
         /\ proc'[p].result.status = "ok" <=>
               /\ User_get_by_id(proc'[p].uid) # NoUser
               /\ verify_password(User_get_by_id(proc'[p].uid),
                                  proc'[p].secret).value
         /\ UNCHANGED <<users, documents, registry, store>>]_vars

(***************************************************************************)
(* C17: for an identity made by from_base, the credential answered at its  *)
(* creation unlocks the private key whose public half is the stored        *)
(* public_key, and every other credential fails and yields no key.         *)
(***************************************************************************)
\* the credential from_base answered when it made the user
CredentialOf(user) ==
    CHOOSE w \in Passphrases : from_base(user.id, w, 0).user = user

C17_OnlyTheCredentialUnlocks ==
    [][\A p \in Procs :
         (/\ proc'[p].op = "authenticate"
          /\ Steps(p)
          /\ User_get_by_id(proc'[p].uid) # NoUser) =>
            LET user == User_get_by_id(proc'[p].uid)
                unlocked == get_private_key(user, proc'[p].secret)
            IN IF proc'[p].secret = CredentialOf(user)
               THEN /\ unlocked.status = "ok"
                    /\ verify_key_pair(unlocked.key, user.public_key).value
                    /\ verify_password(user, proc'[p].secret).value
                    /\ proc'[p].result.status = "ok"
                    /\ proc'[p].result.content = unlocked.key
               ELSE /\ unlocked.status # "ok"
                    /\ proc'[p].result.status # "ok"
                    /\ proc'[p].result.content = ""]_vars

(***************************************************************************)
(* C18: under a key of 16, 24 or 32 bytes, encrypt gives 16 bytes of       *)
(* nonce, 16 bytes of tag and then the ciphertext, 32 bytes more than the  *)
(* plaintext, and decrypt of it gives the plaintext back, the empty one    *)
(* included.                                                               *)
(***************************************************************************)
C18_RoundTrip ==
    [][\A p \in Procs :
         (/\ proc[p].op = "cipher"
          /\ Steps(p)
          /\ proc[p].aes.len \in AESKeySizes) =>
            /\ proc[p].pc = "c_encrypt" =>
                  /\ proc'[p].pc = "c_decrypt"
                  /\ Len(proc'[p].blob) = Len(proc[p].content) + 32
                  /\ \A i \in 1..Len(proc'[p].blob) :
                        proc'[p].blob[i].part =
                            IF i <= 16 THEN "nonce"
                            ELSE IF i <= 32 THEN "tag" ELSE "ciphertext"
            /\ proc[p].pc = "c_decrypt" =>
                  /\ proc'[p].pc = "done"
                  /\ proc'[p].result.status = "ok"
                  /\ proc'[p].result.content = proc[p].content]_vars

C18_Witness ==
    \E p \in Procs :
        /\ proc[p].op = "cipher"
        /\ proc[p].pc = "done"
        /\ proc[p].result.status = "ok"
        /\ proc[p].result.content = ""
        /\ Len(proc[p].blob) = 32
        /\ proc[p].secret.type = "str"

(***************************************************************************)
(* C19: whatever string is given to AESHelper as its key, the helper is    *)
(* made, and its key is a byte string of 16, 24 or 32 bytes that depends   *)
(* on the string alone.                                                    *)
(***************************************************************************)
C19_NormalizedKeyIsValid ==
    [][\A p \in Procs :
         (/\ proc[p].pc = "c_init"
          /\ Steps(p)
          /\ proc[p].secret.type = "str") =>
            /\ proc'[p].pc = "c_encrypt"
            /\ proc'[p].aes.type = "bytes"
            /\ proc'[p].aes.len \in AESKeySizes
            /\ proc'[p].aes = AESHelper(proc[p].secret).key]_vars

(***************************************************************************)
(* C21: an upsert for a (document_id, user_id) pair that has a row         *)
(* replaces it: after the turn of the loop the one row of the pair is the  *)
(* row that was passed to upsert, with the wrap made in this turn.         *)
(***************************************************************************)
C21_UpsertReplaces ==
    [][\A p \in Procs, u \in UserIds :
         (/\ proc[p].pc = "k_wrap"
          /\ Steps(p)
          /\ u \in proc[p].todo \ proc'[p].todo
          /\ RowsOf(proc[p].doc.id, u) # {}) =>
            RowsIn(registry', proc[p].doc.id, u) =
               {SharedKeyRow(proc[p].doc.id, u, proc[p].dek,
                             FreshSeed(proc[p].doc.id, u))}]_vars

(***************************************************************************)
(* C22: upload and share do not return a success when a registry row they  *)
(* tried to write was not persisted.                                       *)
(***************************************************************************)
C22_FailedUpsertSurfaces ==
    \A p \in Procs :
       (/\ proc[p].pc = "done"
        /\ proc[p].op \in {"upload", "share"}
        /\ proc[p].failed = "k_wrap") =>
          proc[p].result.status # "ok"

(***************************************************************************)
(* C23: deleting a User removes the rows with that user_id and no other    *)
(* row; a call of Document.delete removes no row of another document, and  *)
(* when it ends no row with its document_id is left.                       *)
(***************************************************************************)
C23_DeletionCascades ==
    [][\A p \in Procs : Steps(p) =>
         /\ (proc[p].pc = "done" /\ proc'[p].op = "user_delete") =>
               registry' = {r \in registry : r.user_id # proc'[p].uid}
         /\ (proc[p].op = "delete" /\ proc[p].pc # "done") =>
               /\ {r \in registry' : r.document_id # proc[p].doc.id} =
                     {r \in registry : r.document_id # proc[p].doc.id}
               /\ proc'[p].pc = "done" =>
                     \A r \in registry' : r.document_id # proc[p].doc.id]_vars

(***************************************************************************)
(* Two share calls on one stored document.  The document is the one that   *)
(* upload(owner_id "a-b", filepath "c", content "hello", share_with [])    *)
(* leaves behind; two handlers run share on it, with every list of known   *)
(* recipients and with the key of the owner or of another user.            *)
(***************************************************************************)
ShareLists == {{"a"}, {"u"}, {"a", "u"}}

InitShare ==
    /\ users = {from_base(u, Passphrase("phrase-" \o u), 0).user : u \in UserIds}
    /\ documents = {NewDocument(Report.owner_id, Report.filepath, Report.content)}
    /\ registry = {SharedKeyRow(ReportId, Report.owner_id, get_random_key(1), 0)}
    /\ store = [path \in {local_path(ReportId)} |->
                  AES_encrypt(get_random_key(1), Report.content, 0).out]
    /\ nextDek = 2
    /\ faults = 0
    /\ proc = [p \in 1..2 |-> Idle]

NextShare ==
    \/ \E p \in Procs, l \in ShareLists, k \in {PrivateKey("a-b"), PrivateKey("a")} :
          ShareBegin(p, ReportId, l, k)
    \/ \E p \in Procs : ShareAuth(p)
    \/ \E p \in Procs : RegistryMap(p)
    \/ \E p \in Procs, u \in UserIds : RegistryWrap(p, u)
    \/ \E p \in Procs : Respond(p)

SpecShare == InitShare /\ [][NextShare]_vars

(***************************************************************************)
(* C24: share calls with the owner's key that run at once on one document  *)
(* all run to a success, whatever the interleaving: no step removes or     *)
(* changes a row, a new row is a row of a listed recipient, a call that    *)
(* has finished its upserts finds every listed recipient holding a row and *)
(* answers so; each pair has one row, and every row wraps the DEK of the   *)
(* document under the public key of its user.                              *)
(***************************************************************************)
C24_ConcurrentSharesComplete ==
    [][\A p \in Procs :
         (/\ proc[p].op = "share" /\ proc[p].pc # "done" /\ Steps(p)
          /\ proc[p].key = PrivateKey(proc[p].doc.owner_id)) =>
            /\ proc'[p].result.status \in {"", "ok"}
            /\ registry \subseteq registry'
            /\ \A r \in registry' \ registry : r.user_id \in proc[p].user_ids
            /\ proc[p].pc = "resp" =>
                  /\ proc[p].user_ids \subseteq shared_with(proc[p].doc.id)
                  /\ proc'[p].result.status = "ok"
                  /\ proc'[p].result.shared_with = shared_with(proc[p].doc.id)
                  /\ proc'[p].result.not_shared_with = {}
            /\ \A r1 \in registry', r2 \in registry' : SamePk(r1, r2) => r1 = r2
            /\ \A r \in registry' :
                  decrypt_data(r.shared_key, PrivateKey(r.user_id)) =
                     [ok |-> TRUE, data |-> get_random_key(1)]]_vars

\* two calls with overlapping lists are both about to answer
C24_Witness ==
    /\ proc[1].op = "share" /\ proc[1].pc = "resp" /\ proc[1].user_ids = {"a"}
    /\ proc[2].op = "share" /\ proc[2].pc = "resp"
    /\ proc[2].user_ids = {"a", "u"}
    /\ shared_with(ReportId) = {"a-b", "a", "u"}

(***************************************************************************)
(* C25: an upload whose owner_id is the id of no stored user ends at once  *)
(* with "user not found"; it creates no Document record, no row and no     *)
(* entry of the byte store, and draws no key.                              *)
(***************************************************************************)
C25_UnknownOwnerRefused ==
    [][\A p \in Procs :
         (/\ proc[p].pc = "done" /\ Steps(p)
          /\ proc'[p].op = "upload"
          /\ User_get_by_id(proc'[p].doc.owner_id) = NoUser) =>
            /\ proc'[p].pc = "done"
            /\ proc'[p].result.status = "user_not_found"
            /\ UNCHANGED <<users, documents, registry, store, nextDek>>]_vars

\* the owner of a stored document was deleted and uploads again
C25_Witness ==
    \E p \in Procs :
       /\ proc[p].op = "upload" /\ proc[p].pc = "done"
       /\ proc[p].result.status = "user_not_found"
       /\ User_get_by_id(proc[p].doc.owner_id) = NoUser
       /\ \E d \in documents : d.owner_id = proc[p].doc.owner_id

(***************************************************************************)
(* C26: a revoke_access that succeeds removes the rows of its document for *)
(* the listed users and nothing else: no step of it changes the Document   *)
(* table, the byte store, a row of the document for a user not listed or a *)
(* row of another document, and at its answer no listed user holds a row.  *)
(***************************************************************************)
C26_RevokeRemovesListedRows ==
    [][\A p \in Procs :
         (proc[p].op = "revoke" /\ proc[p].pc # "done" /\ Steps(p)) =>
            /\ UNCHANGED <<users, documents, store, nextDek>>
            /\ registry' \subseteq registry
            /\ \A r \in registry \ registry' :
                  /\ r.document_id = proc[p].doc.id
                  /\ r.user_id \in proc[p].user_ids
            /\ proc[p].pc = "resp" =>
                  /\ proc'[p].result.status = "ok"
                  /\ \A u \in proc[p].user_ids : RowsOf(proc[p].doc.id, u) = {}
                  /\ proc'[p].result.shared_with = shared_with(proc[p].doc.id)]_vars

\* a listed user lost his row of the document and keeps his row of another
\* one; a user not listed keeps his row and the bytes are still stored
C26_Witness ==
    \E p \in Procs :
       /\ proc[p].op = "revoke" /\ proc[p].pc = "done"
       /\ proc[p].result.status = "ok"
       /\ proc[p].user_ids = {"a"}
       /\ proc[p].doc.id = ReportId
       /\ RowsOf(ReportId, "a") = {}
       /\ RowsOf(ReportId, "u") # {}
       /\ \E r \in registry : r.user_id = "a" /\ r.document_id # ReportId
       /\ local_path(ReportId) \in DOMAIN store

(***************************************************************************)
(* C27: whenever a document has a Document record and stored bytes and no  *)
(* upload of it is between its steps, every row of it wraps, under the     *)
(* public key of its user, the DEK that opens the stored bytes to the      *)
(* uploaded plaintext.                                                     *)
(***************************************************************************)
C27_RowsWrapStoredDek ==
    \A d \in documents, r \in registry :
       (/\ r.document_id = d.id
        /\ local_path(d.id) \in DOMAIN store
        /\ \A p \in Procs : ~(/\ proc[p].op = "upload" /\ proc[p].pc # "done"
                               /\ proc[p].doc.id = d.id)) =>
          LET unwrapped == decrypt_data(r.shared_key, PrivateKey(r.user_id)) IN
          /\ unwrapped.ok
          /\ AES_decrypt(unwrapped.data, store[local_path(d.id)]) =
                [status |-> "ok", data |-> PlainOf(d)]

(***************************************************************************)
(* Uploads of two users whose ids and file names hold the separator: user  *)
(* "a-b" uploads the file "c" and user "a" uploads the file "b-c", with    *)
(* the same or with another content.                                       *)
(***************************************************************************)
IdUploads ==
    {Report,
     [owner_id |-> "a", filepath |-> "b-c", content |-> "hello"],
     [owner_id |-> "a", filepath |-> "b-c", content |-> "bye"]}

NextIds ==
    \/ \E p \in Procs, b \in IdUploads, l \in {{}, {"u"}} :
          UploadBegin(p, b.owner_id, b.filepath, b.content, l)
    \/ \E p \in Procs : UploadLookup(p)
    \/ \E p \in Procs : UploadCreate(p)
    \/ \E p \in Procs : RegistryMap(p)
    \/ \E p \in Procs, u \in UserIds : RegistryWrap(p, u)
    \/ \E p \in Procs : UploadWrite(p)
    \/ \E p \in Procs : Respond(p)

SpecIds == Init /\ [][NextIds]_vars

(***************************************************************************)
(* C28: uploads that differ in owner_id, filepath or content hash get      *)
(* different document ids, so the stored document an upload finds under    *)
(* its id, and answers with, has the owner, the file path and the hash of  *)
(* that upload.                                                            *)
(***************************************************************************)
C28_UploadFindsOwnDocument ==
    [][\A p \in Procs :
         (proc[p].op = "upload" /\ proc[p].pc = "u_lookup" /\ Steps(p)) =>
            /\ \A b \in IdUploads :
                  doc_id(b.owner_id, b.filepath, b.content) = proc[p].doc.id =>
                     /\ b.owner_id = proc[p].doc.owner_id
                     /\ b.filepath = proc[p].doc.filepath
                     /\ hash_file(b.content) = proc[p].doc.hash
            /\ proc'[p].pc = "resp" =>
                  /\ proc'[p].doc.owner_id = proc[p].doc.owner_id
                  /\ proc'[p].doc.filepath = proc[p].doc.filepath
                  /\ proc'[p].doc.hash = proc[p].doc.hash]_vars

(***************************************************************************)
(* C29: whenever a Document record exists, a user holds a row of it and no *)
(* upload of it is between its steps, the byte store holds bytes under the *)
(* path of the document, so that get_content finds them.                   *)
(***************************************************************************)
C29_SharedDocumentHasBytes ==
    \A d \in documents :
       (/\ shared_with(d.id) # {}
        /\ \A p \in Procs : ~(/\ proc[p].op = "upload" /\ proc[p].pc # "done"
                               /\ proc[p].doc.id = d.id)) =>
          local_path(d.id) \in DOMAIN store

(***************************************************************************)
(* C30: when no request is between its steps, every row of the registry    *)
(* names a stored Document record and a stored User.                       *)
(***************************************************************************)
C30_RowsReferenceStoredRecords ==
    (\A p \in Procs : proc[p].pc = "done") =>
       \A r \in registry :
          /\ Document_get_by_id(r.document_id) # NoDoc
          /\ User_get_by_id(r.user_id) # NoUser

====
